---- MODULE Spec2Model ----
(***************************************************************************)
(* Model of shreducers/parse_tree.py: PtNode (lazy operands, annotation    *)
(* store), ParseTreeProcessor (bottom-up traversal, name based dispatch,   *)
(* delegate_of) and ParseTreeMultiProcessor (slots of processors).         *)
(* The recursion of process() is unfolded into an explicit call stack; an  *)
(* exception empties the stack, since the module has no try/except.        *)
(***************************************************************************)
EXTENDS Integers, Sequences, FiniteSets, TLC

\* ---------------------------------------------------------------- bounds
MaxNodes == 3      \* largest number of nodes of an input tree
MaxCalls == 2      \* process() calls made on one processor

\* ---------------------------------------------------------------- values
\* Python values that can sit in an operand slot, in one uniform shape:
\* None, an int, a tuple (op, a[, b]) or a reference to a PtNode object.
VNone == [tag |-> "none", val |-> 0, op |-> "", items |-> <<>>]

VInt(i) == [tag |-> "int", val |-> i, op |-> "", items |-> <<>>]

VTup(o, its) == [tag |-> "tuple", val |-> 0, op |-> o, items |-> its]

VNode(id) == [tag |-> "node", val |-> id, op |-> "", items |-> <<>>]

IsTuple(v) == v.tag = "tuple"

IsNode(v) == v.tag = "node"

\* values of the annotation store: None, a bool, or a list of names
ANone == [t |-> "none", b |-> FALSE, l |-> <<>>]

ABool(v) == [t |-> "bool", b |-> v, l |-> <<>>]

AList(s) == [t |-> "list", b |-> FALSE, l |-> s]

\* PtNodeExtras(): an empty dict
PtNodeExtras == [k \in {} |-> ANone]

\* (mutant) a read of a missing key gives None and stores nothing
ExtrasReadNoStore(x, key) ==
    IF key \in DOMAIN x THEN [x |-> x, val |-> x[key]]
    ELSE [x |-> x, val |-> ANone]

\* PtNodeExtras.__missing__ / __getattr__: a read of a missing key stores None
ExtrasRead(x, key) ==
    IF key \in DOMAIN x THEN [x |-> x, val |-> x[key]]
    ELSE [x |-> (key :> ANone) @@ x, val |-> ANone]

\* PtNodeExtras.__setattr__
ExtrasWrite(x, key, v) == (key :> v) @@ x

\* dict.update(marks)
ExtrasUpdate(x, marks) == marks @@ x

\* ------------------------------------------------------------------ PtNode
\* PtNode(t) for a tuple t: _op, _a, _b taken from t by position, the
\* missing ones stay None; _x is a fresh PtNodeExtras.
PtNodeInit(t) ==
    [op |-> t.op,
     a  |-> IF Len(t.items) >= 1 THEN t.items[1] ELSE VNone,
     b  |-> IF Len(t.items) >= 2 THEN t.items[2] ELSE VNone,
     x  |-> PtNodeExtras]

\* the heap is the sequence of PtNode objects created so far
Alloc(h, t) == Append(h, PtNodeInit(t))

\* (mutant) the converted operand is returned but not stored
ReadANoStore(h, n) ==
    IF IsTuple(h[n].a)
    THEN [heap |-> Alloc(h, h[n].a), val |-> VNode(Len(h) + 1)]
    ELSE [heap |-> h, val |-> h[n].a]

\* property PtNode.a: converts a tuple once and stores the node in place
ReadA(h, n) ==
    IF IsTuple(h[n].a)
    THEN LET h1 == Alloc(h, h[n].a)
             id == Len(h) + 1
         IN [heap |-> [h1 EXCEPT ![n].a = VNode(id)], val |-> VNode(id)]
    ELSE [heap |-> h, val |-> h[n].a]

\* property PtNode.b
ReadB(h, n) ==
    IF IsTuple(h[n].b)
    THEN LET h1 == Alloc(h, h[n].b)
             id == Len(h) + 1
         IN [heap |-> [h1 EXCEPT ![n].b = VNode(id)], val |-> VNode(id)]
    ELSE [heap |-> h, val |-> h[n].b]

\* a.setter / b.setter
WriteA(h, n, v) == [h EXCEPT ![n].a = v]

WriteB(h, n, v) == [h EXCEPT ![n].b = v]

\* `self.b is None` in PtNode.operands, `node.b is not None` in process()
IsAbsent(v) == v.tag = "none"

\* (mutant) both operands are always returned
OperandsBoth(h, n) ==
    LET ra == ReadB(h, n)
        rb == ReadA(ra.heap, n)
    IN [heap |-> rb.heap, val |-> <<rb.val, ra.val>>]

\* PtNode.operands: (a,) when b is None, else (a, b); both reads materialize
Operands(h, n) ==
    LET ra == ReadB(h, n)
        rb == ReadA(ra.heap, n)
    IN [heap |-> rb.heap,
        val  |-> IF IsAbsent(ra.val) THEN <<rb.val>> ELSE <<rb.val, ra.val>>]

\* (mutant) only operand a is marked
MarkOperandsOnlyA(h, n, marks) ==
    LET ra == ReadA(h, n)
    IN IF IsNode(ra.val)
       THEN [ra.heap EXCEPT ![ra.val.val].x = ExtrasUpdate(@, marks)]
       ELSE ra.heap

\* PtNode.mark_operands(**marks)
MarkOperands(h, n, marks) ==
    LET ra == ReadA(h, n)
        h1 == IF IsNode(ra.val)
              THEN [ra.heap EXCEPT ![ra.val.val].x = ExtrasUpdate(@, marks)]
              ELSE ra.heap
        rb == ReadB(h1, n)
        h2 == IF IsNode(rb.val)
              THEN [rb.heap EXCEPT ![rb.val.val].x = ExtrasUpdate(@, marks)]
              ELSE rb.heap
    IN h2

\* PtNode.to_tuple(): the operator followed by the operands, a node operand
\* rendered by its own to_tuple()
RECURSIVE ToTuple(_, _)
ToTuple(h, n) ==
    LET ops == Operands(h, n)
        ra  == IF IsNode(ops.val[1]) THEN ToTuple(ops.heap, ops.val[1].val)
               ELSE [heap |-> ops.heap, val |-> ops.val[1]]
        rb  == IF Len(ops.val) = 2
               THEN IF IsNode(ops.val[2]) THEN ToTuple(ra.heap, ops.val[2].val)
                    ELSE [heap |-> ra.heap, val |-> ops.val[2]]
               ELSE [heap |-> ra.heap, val |-> VNone]
    IN [heap |-> rb.heap,
        val  |-> VTup(h[n].op, IF Len(ops.val) = 2 THEN <<ra.val, rb.val>>
                               ELSE <<ra.val>>)]

\* ------------------------------------------------ processor classes
\* The classes a collaborator derives from ParseTreeProcessor.  A class is
\* its parent and its own __dict__: method name -> [body, delegate_of].
\*   Tagger     one method process_arith registered with
\*              @delegate_of('process_add', 'process_sub'); it appends the
\*              instance's name to node.x.seen and returns the node
\*   IncTagger  the same registration, and process_primitive overridden
\*              to return int primitives incremented
\*   SubTagger  extends Tagger, adds a conventional process_neg handler
\*   Dropper    registers no node handler; process_primitive overridden to
\*              return None for every primitive
NoMethod == [impl |-> "", body |-> "none", delegate_of |-> {}]

ClassNames == {"ParseTreeProcessor", "Tagger", "IncTagger", "SubTagger", "Dropper"}

Parent(c) == IF c = "SubTagger" THEN "Tagger"
             ELSE IF c = "ParseTreeProcessor" THEN "object"
             ELSE "ParseTreeProcessor"

ClassDict(c) ==
    CASE c = "ParseTreeProcessor" ->
           ("process_primitive" :>
               [impl |-> "ParseTreeProcessor.process_primitive",
                body |-> "identity", delegate_of |-> {}])
        @@ ("process_unrecognised" :>
               [impl |-> "ParseTreeProcessor.process_unrecognised",
                body |-> "unrecognised", delegate_of |-> {}])
      [] c = "Tagger" ->
           ("process_arith" :>
               [impl |-> "Tagger.process_arith", body |-> "tag", delegate_of |-> {"process_add", "process_sub"}])
      [] c = "IncTagger" ->
           ("process_arith" :>
               [impl |-> "IncTagger.process_arith", body |-> "tag", delegate_of |-> {"process_add", "process_sub"}])
        @@ ("process_primitive" :>
               [impl |-> "IncTagger.process_primitive",
                body |-> "inc", delegate_of |-> {}])
      [] c = "SubTagger" ->
           ("process_neg" :>
               [impl |-> "SubTagger.process_neg", body |-> "tag", delegate_of |-> {}])
      [] c = "Dropper" ->
           ("process_primitive" :>
               [impl |-> "Dropper.process_primitive",
                body |-> "drop", delegate_of |-> {}])
      [] OTHER -> [k \in {} |-> NoMethod]

\* the method resolution order of a class
RECURSIVE Mro(_)
Mro(c) == IF c = "object" THEN <<>> ELSE <<c>> \o Mro(Parent(c))

\* class attribute lookup along the MRO
RECURSIVE ClassLookup(_, _)
ClassLookup(mro, name) ==
    IF mro = <<>> THEN NoMethod
    ELSE IF name \in DOMAIN ClassDict(mro[1]) THEN ClassDict(mro[1])[name]
    ELSE ClassLookup(Tail(mro), name)

\* the classes whose __dict__ ParseTreeProcessor.__new__ scans for methods
\* carrying delegate_of: `for k, v in cls.__dict__.iteritems()`
ScannedClasses(c) == {c}

\* ParseTreeProcessor.__new__: every name d in v.delegate_of of a scanned
\* method k becomes an instance attribute bound to getattr(instance, k)
NewDict(c) ==
    LET all   == UNION {(DOMAIN ClassDict(cc)) \X {cc} : cc \in ScannedClasses(c)}
        regs  == {r \in all : ClassDict(r[2])[r[1]].delegate_of # {}}
        names == UNION {ClassDict(r[2])[r[1]].delegate_of : r \in regs}
    IN [d \in names |->
          LET r == CHOOSE q \in regs : d \in ClassDict(q[2])[q[1]].delegate_of
          IN ClassLookup(Mro(c), r[1])]

\* ParseTreeProcessor.__new__ then __init__(strict)
NewProcessor(nm, c, strict) ==
    [name |-> nm, cls |-> c, strict |-> strict, dict |-> NewDict(c)]

\* getattr(self, name): the instance __dict__ first, then the class
GetAttr(inst, name) ==
    IF name \in DOMAIN inst.dict THEN inst.dict[name]
    ELSE ClassLookup(Mro(inst.cls), name)

\* hasattr(self, name)
HasAttr(inst, name) == GetAttr(inst, name) # NoMethod

\* 'process_{}'.format(node.op)
ProcessorName(op) ==
    CASE op = "add" -> "process_add"
      [] op = "sub" -> "process_sub"
      [] op = "neg" -> "process_neg"
      [] op = "foo" -> "process_foo"
      [] op = "primitive" -> "process_primitive"
      [] OTHER -> "process_"

\* --------------------------------------------------------------- state
VARIABLES
    procs,    \* the constructed ParseTreeProcessor instances
    slots,    \* ParseTreeMultiProcessor._all_slots
    cur,      \* ParseTreeMultiProcessor._current_slot_index (NoSlot: None)
    target,   \* whose process() the caller uses: 0 the engine, i procs[i]
    heap,     \* the PtNode objects
    heap0,    \* the PtNode objects as the outermost call found them
    stack,    \* the frames of the process() calls in progress
    ret,      \* the value returned by the call that finished last
    status,   \* of the outermost call: idle, running, returned, raised
    err,      \* the exception that reached the caller
    input,    \* the argument of the outermost call
    trace,    \* the handler invocations of the outermost call, in order
    calls     \* the number of outermost calls made

vars == <<procs, slots, cur, target, heap, heap0, stack, ret, status, err,
          input, trace, calls>>

NoSlot == 0 - 1

NoErr == [kind |-> "none", node |-> 0, depth |-> 0]

\* a slot specification: one processor, or a list of processors
OneProc(i) == [isList |-> FALSE, p |-> i, ps |-> <<>>]

ProcList(s) == [isList |-> TRUE, p |-> 0, ps |-> s]

\* (mutant) a list slot yields its first processor only
CurrentSlotFirst(all, idx) ==
    IF Len(all) <= idx THEN <<>>
    ELSE IF all[idx + 1].isList THEN SubSeq(all[idx + 1].ps, 1, 1)
    ELSE <<all[idx + 1].p>>

\* ParseTreeMultiProcessor._current_slot
CurrentSlot(all, idx) ==
    IF Len(all) <= idx THEN <<>>
    ELSE LET current_slot == all[idx + 1]
         IN IF current_slot.isList THEN current_slot.ps
            ELSE <<current_slot.p>>

\* --------------------------------------------------------------- handlers
\* (mutant) the strict flag is ignored, the node is passed through
UnrecognisedSilent(inst, h, arg) ==
    [heap |-> h, val |-> arg, raised |-> FALSE]

\* (mutant) an unrecognised node is an error in every processor
UnrecognisedAlways(inst, h, arg) ==
    [heap |-> h, val |-> arg, raised |-> TRUE]

\* ParseTreeProcessor.process_unrecognised: raise PtNodeNotRecognised(node)
\* when strict, else return node
Unrecognised(inst, h, arg) ==
    [heap |-> h, val |-> arg, raised |-> inst.strict]

\* (mutant) the default primitive handler returns None
PrimitiveNull(inst, h, arg) ==
    [heap |-> h, val |-> VNone, raised |-> FALSE]

\* ParseTreeProcessor.process_primitive: return primitive
Primitive(inst, h, arg) ==
    [heap |-> h, val |-> arg, raised |-> FALSE]

\* a collaborator's handler: node.x.seen = (node.x.seen or []) + [name];
\* return node
Tag(inst, h, arg) ==
    LET r   == ExtrasRead(h[arg.val].x, "seen")
        old == IF r.val.t = "list" THEN r.val.l ELSE <<>>
    IN [heap |-> [h EXCEPT ![arg.val].x =
                     ExtrasWrite(r.x, "seen", AList(Append(old, inst.name)))],
        val |-> arg, raised |-> FALSE]

\* a collaborator's process_primitive: an int comes back incremented
Inc(inst, h, arg) ==
    [heap |-> h, val |-> IF arg.tag = "int" THEN VInt(arg.val + 1) ELSE arg,
     raised |-> FALSE]

\* a collaborator's process_primitive: return None
Drop(inst, h, arg) ==
    [heap |-> h, val |-> VNone, raised |-> FALSE]

\* the bound method m of instance `inst` called with `arg`
Invoke(m, inst, h, arg) ==
    LET r == CASE m.body = "tag" -> Tag(inst, h, arg)
               [] m.body = "inc" -> Inc(inst, h, arg)
               [] m.body = "drop" -> Drop(inst, h, arg)
               [] m.body = "unrecognised" -> Unrecognised(inst, h, arg)
               [] OTHER -> Primitive(inst, h, arg)
    IN [heap |-> r.heap, val |-> r.val, raised |-> r.raised,
        impl |-> m.impl, body |-> m.body]

\* ParseTreeProcessor.do_process
DoProcess(inst, h, n) ==
    LET processor_name == ProcessorName(h[n].op)
    IN IF HasAttr(inst, processor_name)
       THEN Invoke(GetAttr(inst, processor_name), inst, h, VNode(n))
       ELSE Invoke(GetAttr(inst, "process_unrecognised"), inst, h, VNode(n))

\* self.process_primitive(node)
ProcessPrimitive(inst, h, v) ==
    Invoke(GetAttr(inst, "process_primitive"), inst, h, v)

\* ------------------------------------------------------------ call stack
Frame(fn, p, arg) ==
    [fn |-> fn, p |-> p, pc |-> "enter", node |-> 0, arg |-> arg,
     mi |-> 0, chain |-> VNone]

Top == stack[Len(stack)]

SetTop(f) == [stack EXCEPT ![Len(stack)] = f]

\* one handler invocation: who (p, in slot), on what (node n or primitive
\* val), which method ran (impl, body), what it returned (out), whether it
\* changed any node (changed), and the call depth
Event(kind, p, n, v, r) ==
    [kind |-> kind, p |-> p, slot |-> cur, n |-> n, val |-> v,
     impl |-> r.impl, body |-> r.body, out |-> r.val, raised |-> r.raised,
     changed |-> r.heap # heap, depth |-> Len(stack)]

\* a call returns r to its caller
Return(r) ==
    /\ stack' = SubSeq(stack, 1, Len(stack) - 1)
    /\ ret' = r
    /\ status' = IF Len(stack) = 1 THEN "returned" ELSE status
    /\ err' = err

\* an exception: no frame catches it
Raise(kind, n) ==
    /\ stack' = <<>>
    /\ status' = "raised"
    /\ err' = [kind |-> kind, node |-> n, depth |-> Len(stack)]
    /\ ret' = ret

Running == status = "running" /\ stack # <<>>

\* ------------------------------------------- ParseTreeProcessor.process
\* (mutant) operand b is never taken to be present
HasBNever(v) == FALSE

\* (mutant) operand b is always taken to be present
HasBAlways(v) == TRUE

\* `node.b is not None`
HasB(v) == ~IsAbsent(v)

\* isinstance(node, tuple): node = PtNode(node)
Materialized(h, v) ==
    IF IsTuple(v) THEN [heap |-> Alloc(h, v), node |-> Len(h) + 1]
    ELSE IF IsNode(v) THEN [heap |-> h, node |-> v.val]
    ELSE [heap |-> h, node |-> 0]

\* process(): the argument is converted; a node starts with its operand a
\* (self.process(node.a)), anything else goes to process_primitive
ProcessEnter ==
    /\ Running /\ Top.fn = "process" /\ Top.pc = "enter"
    /\ LET f == Top
           m == Materialized(heap, f.arg)
       IN IF m.node # 0
          THEN LET r == ReadA(m.heap, m.node)
               IN /\ heap' = r.heap
                  /\ stack' = Append(SetTop([f EXCEPT !.pc = "afterA", !.node = m.node]),
                                     Frame("process", f.p, r.val))
                  /\ UNCHANGED <<ret, status, err, trace>>
          ELSE LET r == ProcessPrimitive(procs[f.p], heap, f.arg)
               IN /\ heap' = r.heap
                  /\ trace' = Append(trace, Event("prim", f.p, 0, f.arg, r))
                  /\ Return(r.val)
    /\ UNCHANGED <<procs, slots, cur, target, heap0, input, calls>>

\* node.a = <result>; then `if node.b is not None: self.process(node.b)`
ProcessAfterA ==
    /\ Running /\ Top.fn = "process" /\ Top.pc = "afterA"
    /\ LET f == Top
           r == ReadB(WriteA(heap, f.node, ret), f.node)
       IN /\ heap' = r.heap
          /\ stack' = IF HasB(r.val)
                      THEN Append(SetTop([f EXCEPT !.pc = "afterB"]),
                                  Frame("process", f.p, r.val))
                      ELSE SetTop([f EXCEPT !.pc = "dispatch"])
    /\ UNCHANGED <<procs, slots, cur, target, heap0, input, calls, ret, status, err, trace>>

\* node.b = <result>
ProcessAfterB ==
    /\ Running /\ Top.fn = "process" /\ Top.pc = "afterB"
    /\ heap' = WriteB(heap, Top.node, ret)
    /\ stack' = SetTop([Top EXCEPT !.pc = "dispatch"])
    /\ UNCHANGED <<procs, slots, cur, target, heap0, input, calls, ret, status, err, trace>>

\* return self.do_process(node)
ProcessDispatch ==
    /\ Running /\ Top.fn = "process" /\ Top.pc = "dispatch"
    /\ LET f == Top
           r == DoProcess(procs[f.p], heap, f.node)
       IN /\ trace' = Append(trace, Event("node", f.p, f.node, VNode(f.node), r))
          /\ heap' = r.heap
          /\ IF r.raised THEN Raise("PtNodeNotRecognised", f.node)
             ELSE Return(r.val)
    /\ UNCHANGED <<procs, slots, cur, target, heap0, input, calls>>

\* -------------------------------------- ParseTreeMultiProcessor.process
\* (mutant) only a root marked True is refused
RootNotTrue(v) == v # ABool(TRUE)

\* (mutant) every root is taken to be unmarked
RootAlwaysUnmarked(v) == TRUE

\* `node.x.is_root is None`
RootUnmarked(v) == v = ANone

\* (mutant) the slot cursor is set to 0 by the first call only
MultiEnterNoReset ==
    /\ Running /\ Top.fn = "mprocess" /\ Top.pc = "enter"
    /\ LET f == Top
           m == Materialized(heap, f.arg)
       IN IF m.node = 0
          THEN /\ Raise("AssertionError", 0)
               /\ UNCHANGED <<heap, cur>>
          ELSE LET r  == ExtrasRead(m.heap[m.node].x, "is_root")
                   h1 == [m.heap EXCEPT ![m.node].x = r.x]
               IN IF ~RootUnmarked(r.val)
                  THEN /\ Raise("AssertionError", m.node)
                       /\ heap' = h1
                       /\ cur' = cur
                  ELSE /\ heap' = MarkOperands(
                                     [h1 EXCEPT ![m.node].x =
                                         ExtrasWrite(@, "is_root", ABool(TRUE))],
                                     m.node, "is_root" :> ABool(FALSE))
                       /\ cur' = IF cur = NoSlot THEN 0 ELSE cur
                       /\ stack' = SetTop([f EXCEPT !.pc = "loop", !.node = m.node])
                       /\ UNCHANGED <<ret, status, err>>
    /\ UNCHANGED <<procs, slots, target, heap0, input, calls, trace>>

\* the argument is converted and must be a PtNode whose is_root is None;
\* the root and its operands are marked and the slot cursor is set to 0
MultiEnter ==
    /\ Running /\ Top.fn = "mprocess" /\ Top.pc = "enter"
    /\ LET f == Top
           m == Materialized(heap, f.arg)
       IN IF m.node = 0
          THEN /\ Raise("AssertionError", 0)
               /\ UNCHANGED <<heap, cur>>
          ELSE LET r  == ExtrasRead(m.heap[m.node].x, "is_root")
                   h1 == [m.heap EXCEPT ![m.node].x = r.x]
               IN IF ~RootUnmarked(r.val)
                  THEN /\ Raise("AssertionError", m.node)
                       /\ heap' = h1
                       /\ cur' = cur
                  ELSE /\ heap' = MarkOperands(
                                     [h1 EXCEPT ![m.node].x =
                                         ExtrasWrite(@, "is_root", ABool(TRUE))],
                                     m.node, "is_root" :> ABool(FALSE))
                       /\ cur' = 0
                       /\ stack' = SetTop([f EXCEPT !.pc = "loop", !.node = m.node])
                       /\ UNCHANGED <<ret, status, err>>
    /\ UNCHANGED <<procs, slots, target, heap0, input, calls, trace>>

\* `while self._current_slot_index < len(self._all_slots)`: a slot starts
\* with the chain over node.a; after the last slot the node is returned
MultiLoop ==
    /\ Running /\ Top.fn = "mprocess" /\ Top.pc = "loop"
    /\ IF cur < Len(slots)
       THEN LET r == ReadA(heap, Top.node)
            IN /\ heap' = r.heap
               /\ stack' = SetTop([Top EXCEPT !.pc = "a", !.mi = 1, !.chain = r.val])
               /\ UNCHANGED <<ret, status, err>>
       ELSE /\ heap' = heap
            /\ Return(VNode(Top.node))
    /\ UNCHANGED <<procs, slots, cur, target, heap0, input, calls, trace>>

\* (mutant) every member is given the operand as the slot found it
ChainInputOriginal(f) ==
    IF f.pc = "a" THEN heap[f.node].a ELSE heap[f.node].b

\* the value the next member of the slot is given by
\* _process_in_current_slot: the previous member's result
ChainInput(f) == f.chain

\* _process_in_current_slot('process', operand): the next member's process()
MultiCallMember ==
    /\ Running /\ Top.fn = "mprocess" /\ Top.pc \in {"a", "b"}
    /\ Top.mi <= Len(CurrentSlot(slots, cur))
    /\ stack' = Append(SetTop([Top EXCEPT !.pc = IF Top.pc = "a" THEN "a_ret" ELSE "b_ret"]),
                       Frame("process", CurrentSlot(slots, cur)[Top.mi], ChainInput(Top)))
    /\ UNCHANGED <<procs, slots, cur, target, heap0, input, calls, trace, heap, ret, status, err>>

\* node = getattr(p, method_name)(node), on to the next member
MultiMemberReturn ==
    /\ Running /\ Top.fn = "mprocess" /\ Top.pc \in {"a_ret", "b_ret"}
    /\ stack' = SetTop([Top EXCEPT !.pc = IF Top.pc = "a_ret" THEN "a" ELSE "b",
                                   !.mi = @ + 1, !.chain = ret])
    /\ UNCHANGED <<procs, slots, cur, target, heap0, input, calls, trace, heap, ret, status, err>>

\* node.a = <chain result>, then the chain over node.b if it is not None;
\* node.b = <chain result>
MultiStoreOperand ==
    /\ Running /\ Top.fn = "mprocess" /\ Top.pc \in {"a", "b"}
    /\ Top.mi > Len(CurrentSlot(slots, cur))
    /\ IF Top.pc = "a"
       THEN LET r == ReadB(WriteA(heap, Top.node, Top.chain), Top.node)
            IN /\ heap' = r.heap
               /\ stack' = IF HasB(r.val)
                           THEN SetTop([Top EXCEPT !.pc = "b", !.mi = 1, !.chain = r.val])
                           ELSE SetTop([Top EXCEPT !.pc = "n", !.mi = 1])
       ELSE /\ heap' = WriteB(heap, Top.node, Top.chain)
            /\ stack' = SetTop([Top EXCEPT !.pc = "n", !.mi = 1])
    /\ UNCHANGED <<procs, slots, cur, target, heap0, input, calls, trace, ret, status, err>>

\* node = _process_in_current_slot('do_process', node): the next member's
\* do_process on the root
MultiDispatch ==
    /\ Running /\ Top.fn = "mprocess" /\ Top.pc = "n"
    /\ Top.mi <= Len(CurrentSlot(slots, cur))
    /\ LET f == Top
           p == CurrentSlot(slots, cur)[f.mi]
           r == DoProcess(procs[p], heap, f.node)
       IN /\ trace' = Append(trace, Event("node", p, f.node, VNode(f.node), r))
          /\ heap' = r.heap
          /\ IF r.raised
             THEN Raise("PtNodeNotRecognised", f.node)
             ELSE /\ stack' = SetTop([f EXCEPT !.mi = @ + 1, !.node = r.val.val])
                  /\ UNCHANGED <<ret, status, err>>
    /\ UNCHANGED <<procs, slots, cur, target, heap0, input, calls>>

\* self._current_slot_index += 1
MultiAdvance ==
    /\ Running /\ Top.fn = "mprocess" /\ Top.pc = "n"
    /\ Top.mi > Len(CurrentSlot(slots, cur))
    /\ cur' = cur + 1
    /\ stack' = SetTop([Top EXCEPT !.pc = "loop"])
    /\ UNCHANGED <<procs, slots, target, heap0, input, calls, trace, heap, ret, status, err>>

\* ---------------------------------------------------------------- inputs
\* raw trees by number of nodes: operators from ops, leaves from leafA in
\* operand a and from leafB in operand b (<<>> in leafB: no operand b).
\* TreesBySize(..)[k] is the set of the trees with exactly k nodes.
RECURSIVE GrowTrees(_, _, _, _, _)
GrowTrees(acc, n, ops, leafA, leafB) ==
    IF Len(acc) >= n THEN acc
    ELSE LET k == Len(acc) + 1
             SubA(i) == IF i = 0 THEN {<<l>> : l \in leafA}
                        ELSE {<<t>> : t \in acc[i]}
             SubB(i) == IF i = 0 THEN leafB ELSE {<<t>> : t \in acc[i]}
             new == UNION {{VTup(o, ab[1] \o ab[2]) : o \in ops,
                                                      ab \in SubA(i) \X SubB(k - 1 - i)} :
                           i \in 0 .. (k - 1)}
         IN GrowTrees(Append(acc, new), n, ops, leafA, leafB)

TreesUpTo(n, ops, leafA, leafB) ==
    LET bySize == GrowTrees(<<>>, n, ops, leafA, leafB)
    IN UNION {bySize[k] : k \in 1 .. n}

\* the trees given to process(): "add" has a handler in every class but the
\* base class, "foo" in none
TraversalInputs ==
    TreesUpTo(MaxNodes, {"add", "foo"}, {VInt(1)}, {<<>>, <<VInt(1)>>})
        \cup {VInt(1)}

\* a later call is given the previous result; an Engine also the first
\* root and the first root's operand a
LaterInputs ==
    (IF status = "returned" THEN {ret} ELSE {})
        \cup (IF target = 0 /\ heap # <<>> THEN {VNode(1), heap[1].a} ELSE {})

\* ----------------------------------------------------------- construction
\* the processors and engines constructed by the caller
Configs ==
    { \* one Processor
      [procs |-> <<NewProcessor("P1", "Tagger", FALSE)>>, slots |-> <<>>, target |-> 1],
      [procs |-> <<NewProcessor("P1", "Tagger", TRUE)>>, slots |-> <<>>, target |-> 1],
      [procs |-> <<NewProcessor("P1", "IncTagger", FALSE)>>, slots |-> <<>>, target |-> 1],
      [procs |-> <<NewProcessor("P1", "ParseTreeProcessor", FALSE)>>, slots |-> <<>>,
       target |-> 1],
      \* ParseTreeMultiProcessor(P1, [P2, P3])
      [procs |-> <<NewProcessor("P1", "Tagger", FALSE),
                   NewProcessor("P2", "IncTagger", FALSE),
                   NewProcessor("P3", "Tagger", FALSE)>>,
       slots |-> <<OneProc(1), ProcList(<<2, 3>>)>>, target |-> 0],
      [procs |-> <<NewProcessor("P1", "IncTagger", FALSE),
                   NewProcessor("P2", "Tagger", TRUE),
                   NewProcessor("P3", "IncTagger", FALSE)>>,
       slots |-> <<OneProc(1), ProcList(<<2, 3>>)>>, target |-> 0] }

Init ==
    /\ \E k \in Configs :
          /\ procs = k.procs
          /\ slots = k.slots
          /\ target = k.target
    /\ cur = NoSlot
    /\ heap = <<>>
    /\ heap0 = <<>>
    /\ stack = <<>>
    /\ ret = VNone
    /\ status = "idle"
    /\ err = NoErr
    /\ input = VNone
    /\ trace = <<>>
    /\ calls = 0

\* the caller calls process(v) on the engine or on the processor
CallProcess(v) ==
    /\ status # "running"
    /\ calls < MaxCalls
    /\ stack' = <<Frame(IF target = 0 THEN "mprocess" ELSE "process", target, v)>>
    /\ status' = "running"
    /\ input' = v
    /\ trace' = <<>>
    /\ err' = NoErr
    /\ calls' = calls + 1
    /\ heap0' = heap
    /\ UNCHANGED <<procs, slots, cur, target, heap, ret>>

Next ==
    \/ \E v \in (IF calls = 0 THEN TraversalInputs ELSE LaterInputs) : CallProcess(v)
    \/ ProcessEnter
    \/ ProcessAfterA
    \/ ProcessAfterB
    \/ ProcessDispatch
    \/ MultiEnter
    \/ MultiLoop
    \/ MultiCallMember
    \/ MultiMemberReturn
    \/ MultiStoreOperand
    \/ MultiDispatch
    \/ MultiAdvance

Spec == Init /\ [][Next]_vars

\* ------------------------------------------------ vocabulary of the claims
\* the node operands of node n
Children(h, n) ==
    {v.val : v \in {w \in {h[n].a, h[n].b} : IsNode(w)}}

\* n and the nodes below it
RECURSIVE Subtree(_, _)
Subtree(h, n) ==
    {n} \cup UNION {Subtree(h, c) : c \in Children(h, n)}

\* the positions of the trace where a node handler was invoked
NodeEvents == {i \in DOMAIN trace : trace[i].kind = "node"}

\* the processors that dispatched node n, in the order they did
DispatchersOf(n) ==
    LET OnN(e) == e.kind = "node" /\ e.n = n
        es == SelectSeq(trace, OnN)
    IN [i \in DOMAIN es |-> es[i].p]

\* the members of the slots from idx on as the Engine was given them, in
\* the order of the pipeline
RECURSIVE MembersFrom(_)
MembersFrom(idx) ==
    IF idx > Len(slots) THEN <<>>
    ELSE (IF slots[idx].isList THEN slots[idx].ps ELSE <<slots[idx].p>>)
         \o MembersFrom(idx + 1)

Pipeline == IF target = 0 THEN MembersFrom(1) ELSE <<target>>

IsPrefix(s, t) == Len(s) <= Len(t) /\ SubSeq(t, 1, Len(s)) = s

\* how many processors of the pipeline increment int primitives
RECURSIVE IncCount(_)
IncCount(ps) ==
    IF ps = <<>> THEN 0
    ELSE (IF GetAttr(procs[ps[1]], "process_primitive").body = "inc" THEN 1 ELSE 0)
         + IncCount(Tail(ps))

\* the raw tree t with every int leaf raised by k
RECURSIVE Bump(_, _)
Bump(t, k) ==
    IF t.tag = "int" THEN VInt(t.val + k)
    ELSE IF t.tag = "tuple"
    THEN VTup(t.op, [i \in DOMAIN t.items |-> Bump(t.items[i], k)])
    ELSE t

\* the root node of the running or finished outermost call (0: none yet)
Root ==
    IF status = "returned" THEN (IF IsNode(ret) THEN ret.val ELSE 0)
    ELSE IF stack # <<>> THEN stack[1].node
    ELSE IF status = "raised" /\ err.kind = "PtNodeNotRecognised"
    THEN (IF IsNode(input) THEN input.val ELSE Len(heap0) + 1)
    ELSE 0

\* ---------------------------------------------------------------- claims
\* C1: for a single Processor, process(n) is bottom-up: no node is
\* dispatched twice in one call; when a node is dispatched every node
\* operand of it has been dispatched, and the whole subtree of operand a
\* before any node of operand b; when the call has returned, every node of
\* the tree was dispatched exactly once, the last dispatch is the root's and
\* its result is the value returned, and the operands hold the results
\* (an incrementing primitive handler shows in every leaf).
C1_BottomUp ==
    target # 0 =>
      /\ \A i, j \in NodeEvents : i < j => trace[i].n # trace[j].n
      /\ \A j \in NodeEvents :
            /\ \A c \in Children(heap, trace[j].n) :
                  \E i \in NodeEvents : i < j /\ trace[i].n = c
            /\ IsNode(heap[trace[j].n].a) /\ IsNode(heap[trace[j].n].b) =>
                  \A i, k \in NodeEvents :
                     /\ trace[i].n \in Subtree(heap, heap[trace[j].n].a.val)
                     /\ trace[k].n \in Subtree(heap, heap[trace[j].n].b.val)
                     => i < k /\ k < j
      /\ status = "returned" /\ ~(input.tag \in {"int", "none"}) =>
            /\ IsNode(ret)
            /\ \A n \in Subtree(heap, ret.val) : Len(DispatchersOf(n)) = 1
            /\ trace[Len(trace)].kind = "node"
            /\ trace[Len(trace)].out = ret
            /\ calls = 1 => ToTuple(heap, ret.val).val = Bump(input, IncCount(Pipeline))

C1_Witness ==
    /\ target # 0 /\ status = "returned" /\ calls = 1
    /\ IsNode(ret) /\ IsNode(heap[ret.val].a) /\ IsNode(heap[ret.val].b)
    /\ Cardinality(NodeEvents) = 3
    /\ IncCount(Pipeline) = 1

\* C2: in an Engine call, the processors that dispatched any node are, in
\* order, a prefix of the pipeline (slot 1's members as listed, then slot
\* 2's, ...), and when the call has returned every node of the tree was
\* dispatched by the whole pipeline, once by each member; the root is never
\* the node of a member's recursive process(), it is dispatched from the
\* Engine's own frame, and every other node from inside a member's
\* process(); each member is given the previous member's output, so every
\* int leaf has been raised once by each incrementing member.
C2_PipelineOrder ==
    target = 0 =>
      /\ \A n \in DOMAIN heap : IsPrefix(DispatchersOf(n), Pipeline)
      /\ \A i \in DOMAIN stack :
            stack[i].fn = "process" /\ stack[i].node # 0 => stack[i].node # stack[1].node
      /\ \A j \in NodeEvents : (trace[j].depth = 1) <=> (trace[j].n = Root)
      /\ status = "returned" =>
            /\ \A n \in Subtree(heap, ret.val) : DispatchersOf(n) = Pipeline
            /\ ToTuple(heap, ret.val).val = Bump(input, IncCount(Pipeline))

C2_Witness ==
    /\ target = 0 /\ status = "returned"
    /\ Len(Pipeline) = 3 /\ IncCount(Pipeline) = 2
    /\ IsNode(heap[ret.val].a) /\ IsNode(heap[heap[ret.val].a.val].a)
    /\ Len(trace) = 12

\* C3: after a fresh tree has passed the Engine's entry, and for the rest
\* of the call and after it, the root's is_root is True, every node operand
\* of the root has is_root False and no deeper node has is_root set (the
\* key is missing or None); no handler runs before that.
C3_RootMarks ==
    target = 0 /\ calls = 1 =>
      /\ trace # <<>> => Root # 0
      /\ Root # 0 =>
            /\ "is_root" \in DOMAIN heap[Root].x
            /\ heap[Root].x["is_root"] = ABool(TRUE)
            /\ \A c \in Children(heap, Root) :
                  /\ "is_root" \in DOMAIN heap[c].x
                  /\ heap[c].x["is_root"] = ABool(FALSE)
                  /\ \A d \in Subtree(heap, c) \ {c} :
                        "is_root" \in DOMAIN heap[d].x => heap[d].x["is_root"] = ANone
      /\ status = "returned" => Root # 0

C3_Witness ==
    /\ target = 0 /\ calls = 1 /\ status = "returned"
    /\ IsNode(heap[ret.val].a)
    /\ IsNode(heap[heap[ret.val].a.val].a)
    /\ heap[ret.val].x["is_root"] = ABool(TRUE)
    /\ heap[heap[ret.val].a.val].x["is_root"] = ABool(FALSE)
    /\ "is_root" \notin DOMAIN heap[heap[heap[ret.val].a.val].a.val].x

\* the root given to the call had is_root set when the call was made
MarkedAtCall ==
    /\ IsNode(input)
    /\ "is_root" \in DOMAIN heap0[input.val].x
    /\ heap0[input.val].x["is_root"] # ANone

\* the trace ends with a strict processor's dispatch of a node for whose
\* operator it has no process_<op> attribute
EndsUnrecognised ==
    /\ trace # <<>>
    /\ LET e == trace[Len(trace)]
       IN /\ e.kind = "node"
          /\ procs[e.p].strict
          /\ ~HasAttr(procs[e.p], ProcessorName(heap[e.n].op))
          /\ err.node = e.n

\* C4: Engine.process on a root whose is_root is already True or False is
\* rejected: once the entry step is taken the call has failed with the
\* assertion error, no handler has run and no node has changed.
C4_MarkedRootRejected ==
    target = 0 /\ calls >= 1 /\ MarkedAtCall =>
      /\ trace = <<>>
      /\ heap = heap0
      /\ \/ status = "running" /\ Len(stack) = 1 /\ stack[1].pc = "enter"
         \/ status = "raised" /\ err.kind = "AssertionError" /\ err.node = input.val

C4_Witness ==
    /\ target = 0 /\ calls = 2 /\ status = "raised" /\ err.kind = "AssertionError"
    /\ IsNode(input) /\ heap[input.val].x["is_root"] = ABool(FALSE)

\* C5: a dispatch of a node for whose operator the processor has no
\* process_<op> attribute, when the processor is strict, is the last thing
\* that happens in the call: the call has failed with PtNodeNotRecognised
\* carrying that very node, raised at that depth and caught by no frame;
\* when the processor is not strict the dispatch returns that same node and
\* changes nothing.  PtNodeNotRecognised arises in no other way.
C5_StrictFails ==
    /\ \A j \in NodeEvents :
          ~HasAttr(procs[trace[j].p], ProcessorName(heap[trace[j].n].op)) =>
             IF procs[trace[j].p].strict
             THEN /\ j = Len(trace)
                  /\ status = "raised" /\ stack = <<>>
                  /\ err.kind = "PtNodeNotRecognised"
                  /\ err.node = trace[j].n
                  /\ err.depth = trace[j].depth
             ELSE /\ trace[j].out = VNode(trace[j].n)
                  /\ ~trace[j].changed
                  /\ ~trace[j].raised
    /\ status = "raised" /\ err.kind = "PtNodeNotRecognised" => EndsUnrecognised

C5_Witness ==
    /\ target = 0 /\ status = "raised" /\ err.kind = "PtNodeNotRecognised"
    /\ err.depth = 3 /\ heap[err.node].op = "foo"
    /\ \E j \in NodeEvents : ~procs[trace[j].p].strict /\ trace[j].body = "unrecognised"

\* no processor that takes part is strict
AllLenient == \A i \in DOMAIN Pipeline : ~procs[Pipeline[i]].strict

IsPrimitive(v) == ~IsNode(v) /\ ~IsTuple(v)

\* C6 as stated: without a strict processor no first call fails, whatever
\* the input, and a primitive root gives a primitive.
C6_OnlyStrictFails ==
    AllLenient /\ calls = 1 =>
      /\ status # "raised"
      /\ status = "returned" /\ IsPrimitive(input) => IsPrimitive(ret)

\* C6 as amended: a call fails only by a strict processor's unrecognised
\* operator or by the Engine's assertions (its root must be a node, with
\* is_root unset).  A Processor that is not strict fails on no input and
\* returns a primitive for a primitive root; an Engine of such processors
\* fails on no fresh tuple tree; an Engine given a primitive root fails with
\* the assertion error before any handler runs.
C6_FailuresAmended ==
    /\ status = "raised" =>
          \/ err.kind = "PtNodeNotRecognised" /\ EndsUnrecognised
          \/ /\ err.kind = "AssertionError" /\ target = 0 /\ trace = <<>>
             /\ IsPrimitive(input) \/ MarkedAtCall
    /\ AllLenient /\ target # 0 => status # "raised"
    /\ AllLenient /\ target = 0 /\ calls = 1 /\ IsTuple(input) => status # "raised"
    /\ target # 0 /\ status = "returned" /\ IsPrimitive(input) => IsPrimitive(ret)
    /\ target = 0 /\ calls >= 1 /\ IsPrimitive(input) =>
          \/ status = "running" /\ Len(stack) = 1 /\ stack[1].pc = "enter"
          \/ status = "raised" /\ err.kind = "AssertionError"

C6_Witness ==
    /\ AllLenient /\ target = 0 /\ calls = 1 /\ status = "returned"
    /\ \E j \in NodeEvents : trace[j].body = "unrecognised" /\ trace[j].depth = 3

\* C7 as stated: when a member of a slot dispatches a node, every node
\* operand of that node has already been dispatched, in this slot, by every
\* member of the slot.
C7_OperandsDoneBySlot ==
    target = 0 =>
      \A j \in NodeEvents :
         \A c \in Children(heap, trace[j].n) :
            \A m \in DOMAIN CurrentSlot(slots, trace[j].slot) :
               \E i \in NodeEvents :
                  /\ i < j
                  /\ trace[i].n = c
                  /\ trace[i].slot = trace[j].slot
                  /\ trace[i].p = CurrentSlot(slots, trace[j].slot)[m]

\* the case of C7: a member of a two-member slot dispatches a node below the
\* root that has a node operand
C7_Witness ==
    /\ target = 0
    /\ \E j \in NodeEvents :
          /\ trace[j].n # Root
          /\ Children(heap, trace[j].n) # {}
          /\ Len(CurrentSlot(slots, trace[j].slot)) = 2

\* the names the tagging handlers left on node n
SeenOn(n) ==
    IF "seen" \in DOMAIN heap[n].x /\ heap[n].x["seen"].t = "list"
    THEN heap[n].x["seen"].l ELSE <<>>

\* the names of the processors whose tagging handler ran on node n, in order
TaggersOf(n) ==
    LET OnN(e) == e.kind = "node" /\ e.n = n /\ e.body = "tag"
        es == SelectSeq(trace, OnN)
    IN [i \in DOMAIN es |-> procs[es[i].p].name]

\* C9: in a first Engine call, the annotation each tagging handler reads on
\* a node holds what all handlers that ran earlier on that node wrote, in
\* the same slot or in earlier slots: the list on the node is at any moment
\* the names of the handlers that ran on it, in pipeline order, and nothing
\* is lost at the end of a slot; and each slot works on the previous slot's
\* result: when the call has returned every int leaf has been raised once by
\* each incrementing member of the pipeline, and every node carries the
\* names of all tagging members.
C9_AnnotationsCarried ==
    target = 0 /\ calls = 1 =>
      /\ \A n \in DOMAIN heap : SeenOn(n) = TaggersOf(n)
      /\ \A n \in DOMAIN heap :
            \A i \in DOMAIN TaggersOf(n) :
               \E k \in DOMAIN Pipeline :
                  /\ procs[Pipeline[k]].name = TaggersOf(n)[i]
                  /\ i <= k
      /\ status = "returned" =>
            /\ ToTuple(heap, ret.val).val = Bump(input, IncCount(Pipeline))
            /\ \A n \in Subtree(heap, ret.val) :
                  heap[n].op = "add" => SeenOn(n) = <<"P1", "P2", "P3">>

C9_Witness ==
    /\ target = 0 /\ calls = 1 /\ status = "returned"
    /\ IncCount(Pipeline) = 1
    /\ IsNode(heap[ret.val].a) /\ heap[ret.val].b = VInt(2)
    /\ SeenOn(heap[ret.val].a.val) = <<"P1", "P2", "P3">>
    /\ SeenOn(ret.val) = <<"P1", "P2", "P3">>

\* ------------------------------------------- delegation (SpecDeleg)
\* one Processor of a class that registers process_arith for process_add
\* and process_sub itself (Tagger) or inherits the registration (SubTagger)
DelegInputs ==
    TreesUpTo(MaxNodes, {"add", "sub", "neg"}, {VInt(1)}, {<<>>, <<VInt(1)>>})

InitDeleg ==
    /\ \E c \in {"Tagger", "SubTagger"}, st \in BOOLEAN :
          procs = <<NewProcessor("P1", c, st)>>
    /\ slots = <<>>
    /\ target = 1
    /\ cur = NoSlot
    /\ heap = <<>>
    /\ heap0 = <<>>
    /\ stack = <<>>
    /\ ret = VNone
    /\ status = "idle"
    /\ err = NoErr
    /\ input = VNone
    /\ trace = <<>>
    /\ calls = 0

NextDeleg ==
    \/ \E v \in (IF calls = 0 THEN DelegInputs ELSE LaterInputs) : CallProcess(v)
    \/ ProcessEnter
    \/ ProcessAfterA
    \/ ProcessAfterB
    \/ ProcessDispatch

SpecDeleg == InitDeleg /\ [][NextDeleg]_vars

\* the classes of the MRO of class c
MroSet(c) == {Mro(c)[i] : i \in DOMAIN Mro(c)}

\* C8 as stated: whenever a processor dispatches a node whose process_<op>
\* name is registered (delegate_of) by a method of the processor's class or
\* of an ancestor class, that method is the one invoked.
C8_DelegatesBound ==
    \A j \in NodeEvents :
       \A cc \in MroSet(procs[trace[j].p].cls) :
          \A k \in DOMAIN ClassDict(cc) :
             ProcessorName(heap[trace[j].n].op) \in ClassDict(cc)[k].delegate_of =>
                trace[j].impl = ClassLookup(Mro(procs[trace[j].p].cls), k).impl

\* the case of C8: an instance of a subclass that inherits the registration
\* dispatches nodes of both registered operators
C8_Witness ==
    /\ procs[1].cls = "SubTagger"
    /\ \E i, j \in NodeEvents : heap[trace[i].n].op = "add" /\ heap[trace[j].n].op = "sub"

\* --------------------------------------------- round trip (SpecCanon)
\* raw trees whose leaves may be None, also an explicit None operand b.
\* The root is chosen by the action from its operator and its two operands,
\* the operands among the trees with fewer nodes.
CanonOps == {"add", "foo"}

CanonLeafA == {VInt(1), VNone}

CanonLeafB == {<<>>, <<VInt(1)>>, <<VNone>>}

CanonSmaller == GrowTrees(<<>>, MaxNodes - 1, CanonOps, CanonLeafA, CanonLeafB)

CanonOperandA(i) ==
    IF i = 0 THEN {<<l>> : l \in CanonLeafA} ELSE {<<t>> : t \in CanonSmaller[i]}

CanonOperandB(i) ==
    IF i = 0 THEN CanonLeafB ELSE {<<t>> : t \in CanonSmaller[i]}

InitCanon ==
    /\ procs = <<>>
    /\ slots = <<>>
    /\ target = 0
    /\ cur = NoSlot
    /\ heap = <<>>
    /\ heap0 = <<>>
    /\ stack = <<>>
    /\ ret = VNone
    /\ status = "idle"
    /\ err = NoErr
    /\ input = VNone
    /\ trace = <<>>
    /\ calls = 0

\* node = PtNode(t)
CanonBuild(t) ==
    /\ status = "idle"
    /\ heap' = Alloc(heap, t)
    /\ heap0' = heap'
    /\ input' = t
    /\ status' = "built"
    /\ UNCHANGED <<procs, slots, cur, target, stack, ret, err, trace, calls>>

\* node.mark_operands(is_root=False)
CanonMark ==
    /\ status = "built"
    /\ heap' = MarkOperands(heap, 1, "is_root" :> ABool(FALSE))
    /\ heap0' = heap'
    /\ status' = "marked"
    /\ UNCHANGED <<procs, slots, cur, target, stack, ret, err, input, trace, calls>>

\* node.to_tuple()
CanonToTuple ==
    /\ status \in {"built", "marked", "returned"}
    /\ calls < MaxCalls
    /\ LET r == ToTuple(heap, 1)
       IN /\ heap' = r.heap
          /\ ret' = r.val
    /\ heap0' = heap
    /\ status' = "returned"
    /\ calls' = calls + 1
    /\ UNCHANGED <<procs, slots, cur, target, stack, err, input, trace>>

NextCanon ==
    \/ /\ status = "idle"
       /\ \E o \in CanonOps, k \in 1 .. MaxNodes :
             \E i \in 0 .. (k - 1) :
                \E a \in CanonOperandA(i), b \in CanonOperandB(k - 1 - i) :
                   CanonBuild(VTup(o, a \o b))
    \/ CanonMark
    \/ CanonToTuple

SpecCanon == InitCanon /\ [][NextCanon]_vars

\* no tuple of t has None as its operand b
RECURSIVE NoNullB(_)
NoNullB(t) ==
    t.tag = "tuple" =>
       /\ Len(t.items) = 2 => t.items[2] # VNone
       /\ \A i \in DOMAIN t.items : NoNullB(t.items[i])

\* t with every None operand b left out
RECURSIVE DropNullB(_)
DropNullB(t) ==
    IF t.tag # "tuple" THEN t
    ELSE IF Len(t.items) = 2 /\ t.items[2] = VNone
    THEN VTup(t.op, <<DropNullB(t.items[1])>>)
    ELSE VTup(t.op, [i \in DOMAIN t.items |-> DropNullB(t.items[i])])

\* C10 as stated: to_tuple() of the node built from t equals t.
C10_RoundTrip ==
    status = "returned" => ret = input

\* C10 as amended: to_tuple() of the node built from t equals t when no
\* operand b of t is None, and in general equals t with the None operands b
\* left out; to_tuple() changes no operator and no annotation of a node that
\* existed, and the nodes it creates have empty annotations.
C10_RoundTripAmended ==
    status = "returned" =>
      /\ NoNullB(input) => ret = input
      /\ ret = DropNullB(input)
      /\ \A n \in DOMAIN heap0 :
            heap[n].op = heap0[n].op /\ heap[n].x = heap0[n].x
      /\ \A n \in DOMAIN heap : n \notin DOMAIN heap0 => heap[n].x = PtNodeExtras

C10_Witness ==
    /\ status = "returned" /\ calls = 1 /\ ret = input
    /\ Len(heap) = 3 /\ Len(heap0) = 2
    /\ IsTuple(input.items[1]) /\ IsTuple(input.items[1].items[1])
    /\ input.items[1].items[1].items = <<VNone>>
    /\ heap[2].x # PtNodeExtras

\* ------------------------------------- None operands (SpecNull)
\* process() of a Processor without node handlers, of a Dropper, and of an
\* Engine of both, on raw trees whose leaves may be None and whose operand
\* b may be an explicit None; also on a primitive root
NullSmaller == GrowTrees(<<>>, MaxNodes - 1, {"foo"}, CanonLeafA, CanonLeafB)

NullOperandA(i) ==
    IF i = 0 THEN {<<l>> : l \in CanonLeafA} ELSE {<<t>> : t \in NullSmaller[i]}

NullOperandB(i) ==
    IF i = 0 THEN CanonLeafB ELSE {<<t>> : t \in NullSmaller[i]}

NullConfigs ==
    { [procs |-> <<NewProcessor("P1", "ParseTreeProcessor", FALSE)>>, slots |-> <<>>,
       target |-> 1],
      [procs |-> <<NewProcessor("P1", "Dropper", FALSE)>>, slots |-> <<>>, target |-> 1],
      \* ParseTreeMultiProcessor(P1, [P2, P3])
      [procs |-> <<NewProcessor("P1", "ParseTreeProcessor", FALSE),
                   NewProcessor("P2", "Dropper", FALSE),
                   NewProcessor("P3", "ParseTreeProcessor", FALSE)>>,
       slots |-> <<OneProc(1), ProcList(<<2, 3>>)>>, target |-> 0] }

InitNull ==
    /\ \E k \in NullConfigs :
          /\ procs = k.procs
          /\ slots = k.slots
          /\ target = k.target
    /\ cur = NoSlot
    /\ heap = <<>>
    /\ heap0 = <<>>
    /\ stack = <<>>
    /\ ret = VNone
    /\ status = "idle"
    /\ err = NoErr
    /\ input = VNone
    /\ trace = <<>>
    /\ calls = 0

NextNull ==
    \/ /\ calls = 0
       /\ \E o \in CanonOps, k \in 1 .. MaxNodes :
             \E i \in 0 .. (k - 1) :
                \E a \in NullOperandA(i), b \in NullOperandB(k - 1 - i) :
                   CallProcess(VTup(o, a \o b))
    \/ calls = 0 /\ \E v \in CanonLeafA : CallProcess(v)
    \/ calls > 0 /\ \E v \in LaterInputs : CallProcess(v)
    \/ ProcessEnter
    \/ ProcessAfterA
    \/ ProcessAfterB
    \/ ProcessDispatch
    \/ MultiEnter
    \/ MultiLoop
    \/ MultiCallMember
    \/ MultiMemberReturn
    \/ MultiStoreOperand
    \/ MultiDispatch
    \/ MultiAdvance

SpecNull == InitNull /\ [][NextNull]_vars

\* the call is made on a Processor that is not strict and has no handler of
\* its own: the base class's process_primitive and process_unrecognised
IdentityPass ==
    /\ target # 0
    /\ procs[target].cls = "ParseTreeProcessor"
    /\ ~procs[target].strict

\* C11: process() of a non-strict Processor without handlers never fails; a
\* primitive comes back as it is; for a raw tree the result is the node
\* made of the root, for a node that very node, and its to_tuple() equals
\* the to_tuple() of the input as it was when the call was made (for a raw
\* tree: the tree without its None operands b); no operator and no
\* annotation of a node that existed has changed.
C11_IdentityPass ==
    IdentityPass =>
      /\ status # "raised"
      /\ status = "returned" =>
            /\ IsPrimitive(input) => ret = input
            /\ IsTuple(input) =>
                  /\ ret = VNode(Len(heap0) + 1)
                  /\ ToTuple(heap, ret.val).val
                        = ToTuple(Alloc(heap0, input), Len(heap0) + 1).val
                  /\ ToTuple(heap, ret.val).val = DropNullB(input)
            /\ IsNode(input) =>
                  /\ ret = input
                  /\ ToTuple(heap, ret.val).val = ToTuple(heap0, input.val).val
            /\ \A n \in DOMAIN heap0 :
                  heap[n].op = heap0[n].op /\ heap[n].x = heap0[n].x

C11_Witness ==
    /\ IdentityPass /\ status = "returned" /\ calls = 1
    /\ IsTuple(input) /\ Len(input.items) = 2
    /\ IsTuple(input.items[1]) /\ input.items[1].items = <<VNone, VNone>>
    /\ IsTuple(input.items[2]) /\ input.items[2].items = <<VInt(1)>>
    /\ Len(heap) = 3

\* the operand slots (node, "a" or "b") of heap h that hold node id
SlotsHolding(h, id) ==
    {n \in DOMAIN h : h[n].a = VNode(id)} \X {"a"}
        \cup ({n \in DOMAIN h : h[n].b = VNode(id)} \X {"b"})

\* a read of operand slot `was` that gave r: a raw form was converted to a
\* new node that replaced it in the slot, anything else is returned as it
\* is; nothing else changed
ReadConverts(h, n, was, r, now) ==
    IF IsTuple(was)
    THEN /\ r.val = VNode(Len(h) + 1)
         /\ Len(r.heap) = Len(h) + 1
         /\ r.heap[Len(h) + 1] = PtNodeInit(was)
         /\ now = r.val
         /\ \A m \in DOMAIN h : m # n => r.heap[m] = h[m]
         /\ r.heap[n].op = h[n].op /\ r.heap[n].x = h[n].x
    ELSE r.heap = h /\ r.val = was

\* the names on the "seen" list of annotation store x
SeenIn(x) ==
    IF "seen" \in DOMAIN x /\ x["seen"].t = "list" THEN x["seen"].l ELSE <<>>

\* in every state, for every node and either operand slot: the first read
\* converts a raw form and stores the node, the second read returns the
\* same node and converts nothing, and so do operands, mark_operands and
\* to_tuple after it; no node sits in two slots
MemoizedReads ==
    /\ \A n \in DOMAIN heap :
          LET a1 == ReadA(heap, n)
              a2 == ReadA(a1.heap, n)
              b1 == ReadB(heap, n)
              b2 == ReadB(b1.heap, n)
              ab == ReadB(a1.heap, n)
              os == Operands(ab.heap, n)
              mk == MarkOperands(ab.heap, n, "is_root" :> ABool(FALSE))
              tt == ToTuple(ab.heap, n).heap
          IN /\ ReadConverts(heap, n, heap[n].a, a1, a1.heap[n].a)
             /\ ReadConverts(heap, n, heap[n].b, b1, b1.heap[n].b)
             /\ a1.heap[n].b = heap[n].b /\ b1.heap[n].a = heap[n].a
             /\ a2 = a1 /\ b2 = b1
             /\ os.heap = ab.heap
             /\ os.val[1] = a1.val
             /\ HasB(ab.val) => os.val[2] = ab.val
             /\ mk[n].a = a1.val /\ mk[n].b = ab.val
             /\ Len(mk) = Len(ab.heap)
             /\ tt[n].a = a1.val /\ tt[n].b = ab.val
    /\ \A id \in DOMAIN heap : Cardinality(SlotsHolding(heap, id)) <= 1

\* in every step: a slot that holds a node keeps that node, a slot that
\* holds a raw form keeps it or gets a node created in this step, and no
\* node loses an annotation
MemoizedStep ==
    \A n \in DOMAIN heap :
       /\ n \in DOMAIN heap'
       /\ IsNode(heap[n].a) => heap'[n].a = heap[n].a
       /\ IsNode(heap[n].b) => heap'[n].b = heap[n].b
       /\ IsTuple(heap[n].a) =>
             \/ heap'[n].a = heap[n].a
             \/ IsNode(heap'[n].a) /\ heap'[n].a.val \notin DOMAIN heap
       /\ IsTuple(heap[n].b) =>
             \/ heap'[n].b = heap[n].b
             \/ IsNode(heap'[n].b) /\ heap'[n].b.val \notin DOMAIN heap
       /\ DOMAIN heap[n].x \subseteq DOMAIN heap'[n].x
       /\ IsPrefix(SeenIn(heap[n].x), SeenIn(heap'[n].x))

\* C12: lazy materialization is memoized: the first read of a raw operand
\* converts it and stores the node in its slot, every later read (the
\* property itself, operands, mark_operands, to_tuple, a Processor, an
\* Engine) returns that node and converts nothing; during process() calls
\* no slot that holds a node gets another one and no annotation is lost.
C12_Memoized == [](MemoizedReads) /\ [][MemoizedStep]_vars

C12_Witness ==
    /\ target = 0 /\ status = "returned" /\ calls = 1
    /\ IsTuple(input.items[1]) /\ IsTuple(input.items[1].items[1])
    /\ Len(heap) = 3
    /\ heap[1].a = VNode(2) /\ heap[2].a = VNode(3)
    /\ SeenOn(3) = <<"P1", "P2", "P3">>

\* ------------------------------------------- nesting (SpecNest)
\* ParseTreeMultiProcessor.__init__ of an Engine object kept among the
\* processors: its own _all_slots and _current_slot_index
NewEngine(nm, sl) ==
    [name |-> nm, cls |-> "ParseTreeMultiProcessor", all_slots |-> sl, cur |-> NoSlot]

IsEngine(p) == procs[p].cls = "ParseTreeMultiProcessor"

\* the processors a caller has at hand: two Processors and E, an Engine
\* constructed as ParseTreeMultiProcessor(P2)
NestProcs ==
    <<NewProcessor("P1", "IncTagger", FALSE),
      NewProcessor("P2", "Tagger", FALSE),
      NewEngine("E", <<OneProc(2)>>)>>

\* the arguments the caller constructs the outer Engine with
NestSlots ==
    { <<OneProc(1), OneProc(2)>>,
      <<OneProc(1), ProcList(<<2, 3>>)>>,
      <<ProcList(<<1, 3>>)>>,
      <<OneProc(3)>> }

\* the classes the caller instantiates: the Engine and a subclass of it
NestClasses == {"ParseTreeMultiProcessor", "SubMultiProcessor"}

InitNest ==
    /\ procs = NestProcs
    /\ slots = <<>>
    /\ target = 0
    /\ cur = NoSlot
    /\ heap = <<>>
    /\ heap0 = <<>>
    /\ stack = <<>>
    /\ ret = VNone
    /\ status = "new"
    /\ err = NoErr
    /\ input = VNone
    /\ trace = <<>>
    /\ calls = 0

\* cls(*processors): ParseTreeMultiProcessor.__init__ raises RuntimeError
\* when the class name is not ParseTreeMultiProcessor, else it stores the
\* processors as given and sets the cursor to None
Construct(cls, processors) ==
    /\ status = "new"
    /\ IF cls # "ParseTreeMultiProcessor"
       THEN /\ status' = "rejected"
            /\ err' = [kind |-> "RuntimeError", node |-> 0, depth |-> 0]
            /\ UNCHANGED <<slots, cur>>
       ELSE /\ slots' = processors
            /\ cur' = NoSlot
            /\ status' = "idle"
            /\ err' = err
    /\ UNCHANGED <<procs, target, heap, heap0, stack, ret, input, trace, calls>>

\* the member whose process() _process_in_current_slot calls next is an
\* Engine
NextMemberIsEngine ==
    /\ Running /\ Top.fn = "mprocess" /\ Top.pc \in {"a", "b"}
    /\ Top.mi <= Len(CurrentSlot(slots, cur))
    /\ IsEngine(CurrentSlot(slots, cur)[Top.mi])

\* getattr(p, 'process')(node) where p is an Engine: its own process()
NestedCallMember ==
    /\ NextMemberIsEngine
    /\ stack' = Append(SetTop([Top EXCEPT !.pc = IF Top.pc = "a" THEN "a_ret" ELSE "b_ret"]),
                       Frame("nprocess", CurrentSlot(slots, cur)[Top.mi], ChainInput(Top)))
    /\ UNCHANGED <<procs, slots, cur, target, heap0, input, calls, trace, heap, ret, status, err>>

\* ParseTreeMultiProcessor.process of the nested Engine, lines 215-224: the
\* two assertions, the marking, the cursor of the nested Engine set to 0.
\* Its slots would run from pc "loop" on.
NestedEnter ==
    /\ Running /\ Top.fn = "nprocess" /\ Top.pc = "enter"
    /\ LET f == Top
           m == Materialized(heap, f.arg)
       IN IF m.node = 0
          THEN /\ Raise("AssertionError", 0)
               /\ UNCHANGED <<heap, procs>>
          ELSE LET r  == ExtrasRead(m.heap[m.node].x, "is_root")
                   h1 == [m.heap EXCEPT ![m.node].x = r.x]
               IN IF ~RootUnmarked(r.val)
                  THEN /\ Raise("AssertionError", m.node)
                       /\ heap' = h1
                       /\ procs' = procs
                  ELSE /\ heap' = MarkOperands(
                                     [h1 EXCEPT ![m.node].x =
                                         ExtrasWrite(@, "is_root", ABool(TRUE))],
                                     m.node, "is_root" :> ABool(FALSE))
                       /\ procs' = [procs EXCEPT ![f.p].cur = 0]
                       /\ stack' = SetTop([f EXCEPT !.pc = "loop", !.node = m.node])
                       /\ UNCHANGED <<ret, status, err>>
    /\ UNCHANGED <<slots, cur, target, heap0, input, calls, trace>>

NextNest ==
    \/ \E cls \in NestClasses, processors \in NestSlots : Construct(cls, processors)
    \/ /\ status \in {"idle", "returned", "raised"}
       /\ \E v \in (IF calls = 0 THEN TraversalInputs ELSE LaterInputs) : CallProcess(v)
    \/ ProcessEnter
    \/ ProcessAfterA
    \/ ProcessAfterB
    \/ ProcessDispatch
    \/ MultiEnter
    \/ MultiLoop
    \/ ~NextMemberIsEngine /\ MultiCallMember
    \/ NestedCallMember
    \/ NestedEnter
    \/ MultiMemberReturn
    \/ MultiStoreOperand
    \/ MultiDispatch
    \/ MultiAdvance

SpecNest == InitNest /\ [][NextNest]_vars

\* the members of all slots of the constructed Engine
SlotMembers ==
    UNION {{CurrentSlot(slots, k - 1)[i] : i \in DOMAIN CurrentSlot(slots, k - 1)} :
           k \in DOMAIN slots}

\* every process() of a nested Engine stops at one of its assertions: no
\* frame of a nested Engine gets past its entry, and no Engine member is
\* reached by the do_process chain over the root
NestedStopsAtEntry ==
    /\ \A i \in DOMAIN stack : stack[i].fn = "nprocess" => stack[i].pc = "enter"
    /\ Running /\ Top.fn = "mprocess" /\ Top.pc = "n"
          /\ Top.mi <= Len(CurrentSlot(slots, cur))
          => ~IsEngine(CurrentSlot(slots, cur)[Top.mi])

\* the constructor of a subclass of the Engine raises RuntimeError and
\* nothing is constructed
SubclassRejected ==
    status = "rejected" => err.kind = "RuntimeError" /\ slots = <<>> /\ calls = 0

\* C13 as stated: a constructed Engine has no Engine among the members of
\* its slots, so no process() call is ever made on a nested Engine and no
\* call fails after its traversal has begun because of one.
C13_NoNesting ==
    /\ \A p \in SlotMembers : ~IsEngine(p)
    /\ \A i \in DOMAIN stack : stack[i].fn # "nprocess"
    /\ status = "raised" /\ err.kind = "AssertionError" => cur = NoSlot

\* the case of C13: an Engine constructed with an Engine in its second
\* slot has run its first slot and fails in the second
C13_Witness ==
    /\ status = "raised" /\ err.kind = "AssertionError" /\ calls = 1
    /\ 3 \in SlotMembers
    /\ cur = 1 /\ trace # <<>>
    /\ heap[1].x["is_root"] = ABool(TRUE)
    /\ SeenOn(1) = <<"P1">>

\* ------------------------------- annotations and marks (SpecStore)
\* a caller builds a node from a raw tree and then reads and writes keys
\* of annotation stores and calls mark_operands, on any node there is
StoreTrees == TreesUpTo(MaxNodes, {"add"}, {VInt(1)}, {<<>>, <<VInt(1)>>})

StoreKeys == {"is_root", "seen"}

\* the keyword arguments given to mark_operands
MarkSets ==
    { "is_root" :> ABool(FALSE),
      ("is_root" :> ABool(TRUE)) @@ ("seen" :> AList(<<"P1">>)) }

\* the operation made last: its kind, node, key, the value read or
\* written, the marks
StoreOp(kind, n, key, val, marks) ==
    [kind |-> kind, n |-> n, key |-> key, val |-> val, marks |-> marks]

InitStore ==
    /\ procs = <<>>
    /\ slots = <<>>
    /\ target = 0
    /\ cur = NoSlot
    /\ heap = <<>>
    /\ heap0 = <<>>
    /\ stack = <<>>
    /\ ret = VNone
    /\ status = "idle"
    /\ err = NoErr
    /\ input = VNone
    /\ trace = <<>>
    /\ calls = 0

\* node = PtNode(t)
StoreBuild(t) ==
    /\ status = "idle"
    /\ heap' = Alloc(heap, t)
    /\ heap0' = heap'
    /\ input' = t
    /\ status' = "built"
    /\ UNCHANGED <<procs, slots, cur, target, stack, ret, err, trace, calls>>

\* node.x.key, node.x[key]
StoreRead(n, key) ==
    /\ status = "built" /\ calls <= MaxCalls
    /\ LET r == ExtrasRead(heap[n].x, key)
       IN /\ heap' = [heap EXCEPT ![n].x = r.x]
          /\ trace' = <<StoreOp("read", n, key, r.val, PtNodeExtras)>>
    /\ heap0' = heap
    /\ calls' = calls + 1
    /\ UNCHANGED <<procs, slots, cur, target, stack, ret, err, input, status>>

\* node.x.key = True
StoreWrite(n, key) ==
    /\ status = "built" /\ calls <= MaxCalls
    /\ heap' = [heap EXCEPT ![n].x = ExtrasWrite(@, key, ABool(TRUE))]
    /\ trace' = <<StoreOp("write", n, key, ABool(TRUE), PtNodeExtras)>>
    /\ heap0' = heap
    /\ calls' = calls + 1
    /\ UNCHANGED <<procs, slots, cur, target, stack, ret, err, input, status>>

\* node.mark_operands(**marks)
StoreMark(n, marks) ==
    /\ status = "built" /\ calls <= MaxCalls
    /\ heap' = MarkOperands(heap, n, marks)
    /\ trace' = <<StoreOp("mark", n, "", ANone, marks)>>
    /\ heap0' = heap
    /\ calls' = calls + 1
    /\ UNCHANGED <<procs, slots, cur, target, stack, ret, err, input, status>>

NextStore ==
    \/ status = "idle" /\ \E t \in StoreTrees : StoreBuild(t)
    \/ \E n \in DOMAIN heap, key \in StoreKeys : StoreRead(n, key)
    \/ \E n \in DOMAIN heap, key \in StoreKeys : StoreWrite(n, key)
    \/ \E n \in DOMAIN heap, marks \in MarkSets : StoreMark(n, marks)

SpecStore == InitStore /\ [][NextStore]_vars

\* the operation made last (kind "none": none yet)
LastOp == IF trace = <<>> THEN StoreOp("none", 0, "", ANone, PtNodeExtras) ELSE trace[1]

\* nothing but the annotation store of node n differs between h0 and h
OnlyStoreOf(n, h0, h) ==
    /\ Len(h) = Len(h0)
    /\ \A m \in DOMAIN h0 : m # n => h[m] = h0[m]
    /\ h[n].op = h0[n].op /\ h[n].a = h0[n].a /\ h[n].b = h0[n].b

MarkedOperand(h0, h, was, now, marks) ==
    IF IsNode(was)
    THEN /\ now = was
         /\ h[was.val].x = marks @@ h0[was.val].x
         /\ \A k \in DOMAIN marks : h[was.val].x[k] = marks[k]
         /\ \A k \in DOMAIN h0[was.val].x \ DOMAIN marks :
               h[was.val].x[k] = h0[was.val].x[k]
         /\ h[was.val].op = h0[was.val].op
         /\ h[was.val].a = h0[was.val].a /\ h[was.val].b = h0[was.val].b
    ELSE IF IsTuple(was)
    THEN /\ IsNode(now) /\ now.val \notin DOMAIN h0 /\ now.val \in DOMAIN h
         /\ h[now.val] = [PtNodeInit(was) EXCEPT !.x = marks]
    ELSE now = was

\* C16: mark_operands(**marks) on node n merges the marks into the store of
\* each operand that is a node, a raw operand being materialized first:
\* the keys of the marks get the given values, all other keys keep theirs;
\* the node's own store and operator, every other node (the deeper
\* descendants too) and primitive operands are unchanged, and no node is
\* created but those of the raw operands.
C16_MarkOperands ==
    LET o == LastOp
    IN o.kind = "mark" =>
          /\ MarkedOperand(heap0, heap, heap0[o.n].a, heap[o.n].a, o.marks)
          /\ MarkedOperand(heap0, heap, heap0[o.n].b, heap[o.n].b, o.marks)
          /\ heap[o.n].x = heap0[o.n].x /\ heap[o.n].op = heap0[o.n].op
          /\ \A m \in DOMAIN heap0 :
                m \notin Children(heap0, o.n) /\ m # o.n => heap[m] = heap0[m]
          /\ Len(heap) = Len(heap0)
                + Cardinality({sl \in {"a", "b"} :
                     IsTuple(IF sl = "a" THEN heap0[o.n].a ELSE heap0[o.n].b)})

C16_Witness ==
    /\ LastOp.kind = "mark" /\ LastOp.n = 1
    /\ LastOp.marks = "is_root" :> ABool(FALSE)
    /\ heap0[1].a = VNode(2) /\ heap0[1].b = VNode(3)
    /\ heap0[2].x["is_root"] = ABool(TRUE) /\ heap0[3].x["is_root"] = ABool(TRUE)
    /\ heap[2].x["is_root"] = ABool(FALSE) /\ heap[3].x["is_root"] = ABool(FALSE)
    /\ heap[2].x["seen"] = AList(<<"P1">>) /\ heap[3].x["seen"] = AList(<<"P1">>)

\* ----------------------------------------- traversals of a slot (Spec)
\* the positions of the trace where node n was dispatched in slot k
DispatchedIn(n, k) ==
    {j \in NodeEvents : trace[j].n = n /\ trace[j].slot = k}

\* C15 as stated: in a slot every node below the root is visited by one
\* recursive descent only.  A descent is on node n while a member's
\* process() frame holds n; the frame dispatches n as its last step, so a
\* frame on a node that was already dispatched in the current slot is a
\* second descent on it.
C15_OneDescentPerSlot ==
    target = 0 =>
      \A i \in DOMAIN stack :
         stack[i].fn = "process" /\ stack[i].node # 0 =>
            DispatchedIn(stack[i].node, cur) = {}

\* the case of C15: a slot of two members has run on a tree with a node
\* below the root's operand; that node was dispatched in it once by each
\* member
C15_Witness ==
    /\ target = 0 /\ status = "returned" /\ calls = 1
    /\ IsNode(heap[Root].a) /\ IsNode(heap[heap[Root].a.val].a)
    /\ Len(CurrentSlot(slots, 1)) = 2
    /\ Cardinality(DispatchedIn(heap[heap[Root].a.val].a.val, 1)) = 2
    /\ Cardinality(DispatchedIn(heap[heap[Root].a.val].a.val, 0)) = 1

\* --------------------------------------- failure of an Engine call (Spec)
\* the sum of the int leaves of raw tree t
RECURSIVE SumLeaves(_)
SumLeaves(t) ==
    IF t.tag = "int" THEN t.val
    ELSE IF t.tag # "tuple" THEN 0
    ELSE IF Len(t.items) = 2 THEN SumLeaves(t.items[1]) + SumLeaves(t.items[2])
    ELSE SumLeaves(t.items[1])

\* the invocations of an incrementing primitive handler on an int
IncEvents ==
    {j \in DOMAIN trace :
        trace[j].kind = "prim" /\ trace[j].body = "inc" /\ trace[j].val.tag = "int"}

\* the Engine call has failed in a slot, by a strict member
FailedInSlot ==
    target = 0 /\ status = "raised" /\ err.kind = "PtNodeNotRecognised"

\* after a failure in a slot the tree is as the failing step found it: the
\* root is marked True and its node operands False, every node carries the
\* names of the tagging handlers that ran on it and the leaves every
\* increment made; a call on a root that is marked is refused at entry
FailedTreeKept ==
    /\ FailedInSlot =>
          /\ Root # 0
          /\ "is_root" \in DOMAIN heap[Root].x
          /\ heap[Root].x["is_root"] = ABool(TRUE)
          /\ \A c \in Children(heap, Root) :
                "is_root" \in DOMAIN heap[c].x /\ heap[c].x["is_root"] = ABool(FALSE)
          /\ cur \in 0 .. (Len(slots) - 1)
          /\ procs[trace[Len(trace)].p] \in
                {procs[CurrentSlot(slots, cur)[i]] : i \in DOMAIN CurrentSlot(slots, cur)}
          /\ calls = 1 =>
                /\ \A n \in DOMAIN heap : SeenOn(n) = TaggersOf(n)
                /\ SumLeaves(ToTuple(heap, Root).val)
                      = SumLeaves(input) + Cardinality(IncEvents)
    /\ target = 0 /\ calls >= 1 /\ MarkedAtCall =>
          /\ trace = <<>> /\ heap = heap0
          /\ \/ status = "running" /\ Len(stack) = 1 /\ stack[1].pc = "enter"
             \/ status = "raised" /\ err.kind = "AssertionError"

\* the failing step changes no node, and a call made on the root of the
\* failed call finds it marked
FailureStep ==
    /\ status = "running" /\ status' = "raised" => heap' = heap
    /\ FailedInSlot /\ status' = "running" /\ input' = VNode(Root) => MarkedAtCall'

\* C17: Engine.process does not roll back.  When a strict member fails in
\* slot j the root stays marked is_root=True and its node operands
\* is_root=False, what the earlier slots and the part of slot j that ran
\* wrote stays in the tree, and a retry of process() on that root fails the
\* is_root assertion before any handler runs.
C17_NoRollback == [](FailedTreeKept) /\ [][FailureStep]_vars

C17_Witness ==
    /\ target = 0 /\ calls = 2 /\ status = "raised" /\ err.kind = "AssertionError"
    /\ input = VNode(1) /\ procs[2].strict
    /\ heap[1].x["is_root"] = ABool(TRUE)
    /\ SeenOn(1) = <<"P1">>
    /\ IsNode(heap[1].a) /\ heap[heap[1].a.val].op = "foo"
    /\ heap[heap[1].a.val].x["is_root"] = ABool(FALSE)
    /\ heap[1].b = VInt(2)

\* ------------------------------------------ reuse of an Engine (SpecReuse)
\* the Engines of Configs, called again and again on fresh raw trees
\* (short chains of one-operand nodes, one chain that a strict member fails
\* on below the root, one tree of two-operand nodes), and on the first root
\* again
ReuseInputs ==
    TreesUpTo(MaxNodes - 2, {"add", "foo"}, {VInt(1)}, {<<>>})
        \cup {VTup("add", <<VTup("foo", <<VInt(1)>>)>>),
              VTup("add", <<VTup("add", <<VInt(1), VInt(1)>>), VInt(1)>>)}

InitReuse ==
    /\ \E k \in {c \in Configs : c.target = 0} :
          /\ procs = k.procs
          /\ slots = k.slots
          /\ target = k.target
    /\ cur = NoSlot
    /\ heap = <<>>
    /\ heap0 = <<>>
    /\ stack = <<>>
    /\ ret = VNone
    /\ status = "idle"
    /\ err = NoErr
    /\ input = VNone
    /\ trace = <<>>
    /\ calls = 0

NextReuse ==
    \/ \E v \in ReuseInputs : CallProcess(v)
    \/ heap # <<>> /\ CallProcess(VNode(1))
    \/ ProcessEnter
    \/ ProcessAfterA
    \/ ProcessAfterB
    \/ ProcessDispatch
    \/ MultiEnter
    \/ MultiLoop
    \/ MultiCallMember
    \/ MultiMemberReturn
    \/ MultiStoreOperand
    \/ MultiDispatch
    \/ MultiAdvance

SpecReuse == InitReuse /\ [][NextReuse]_vars

\* the positions of the trace where member p dispatched the root in slot k
RootDispatches(p, k) ==
    {j \in NodeEvents : trace[j].n = Root /\ trace[j].p = p /\ trace[j].slot = k}

\* every member of slot k has dispatched the root in slot k, once
SlotDone(k) ==
    \A i \in DOMAIN CurrentSlot(slots, k) :
       Cardinality(RootDispatches(CurrentSlot(slots, k)[i], k)) = 1

\* the call is past the Engine's entry: the assertions held
PastEntry == stack # <<>> /\ stack[1].pc # "enter"

\* the cursor is None before the first call and a slot index or the number
\* of slots after; the handlers of a call run in the slots 0, 1, ... in
\* this order, each in the slot the cursor is on, none skipped, no member
\* dispatching a node twice in a slot; the slots before the cursor are
\* done, those after it not begun; when the call has returned the cursor is
\* the number of slots and every slot is done
CursorInOrder ==
    /\ cur \in {NoSlot} \cup (0 .. Len(slots))
    /\ calls = 0 => cur = NoSlot
    /\ \A j \in DOMAIN trace :
          /\ trace[j].slot \in 0 .. (Len(slots) - 1)
          /\ trace[j].slot <= cur
          /\ \A i \in DOMAIN trace : i < j => trace[i].slot <= trace[j].slot
          /\ \A k \in 0 .. (trace[j].slot - 1) :
                \E i \in DOMAIN trace : i < j /\ trace[i].slot = k
    /\ \A i, j \in NodeEvents :
          i < j /\ trace[i].slot = trace[j].slot /\ trace[i].p = trace[j].p
             => trace[i].n # trace[j].n
    /\ PastEntry =>
          /\ cur \in 0 .. Len(slots)
          /\ \A k \in 0 .. (cur - 1) : SlotDone(k)
    /\ status = "returned" =>
          /\ cur = Len(slots)
          /\ \A k \in 0 .. (Len(slots) - 1) : SlotDone(k)

\* the cursor changes in two ways only: the entry of a call whose
\* assertions hold sets it to 0, and the end of a slot, all members having
\* dispatched the root, adds one
CursorStep ==
    /\ cur' # cur =>
          \/ /\ cur' = 0
             /\ Len(stack) = 1 /\ stack[1].pc = "enter" /\ stack' # <<>>
          \/ /\ cur' = cur + 1
             /\ Len(stack) = 1 /\ stack[1].pc = "n" /\ SlotDone(cur)
    /\ Len(stack) = 1 /\ stack[1].pc = "enter" /\ stack' # <<>> => cur' = 0

\* C18: the slot cursor is set to 0 by every process() call that passes
\* the entry assertions and grows by one at the end of each slot, so the
\* slots run in index order, none skipped or repeated, and the cursor is
\* the number of slots when process() returns; this holds for every call
\* on a fresh tree, the first and the later ones, also after a call that
\* failed in a slot or at the entry.
C18_Cursor == [](CursorInOrder) /\ [][CursorStep]_vars

C18_Witness ==
    /\ calls = 2 /\ status = "returned" /\ cur = Len(slots)
    /\ procs[2].strict
    /\ heap0 # <<>> /\ IsTuple(input)
    /\ heap[1].op = "add" /\ SeenOn(1) = <<"P1">>
    /\ SeenOn(ret.val) = <<"P1", "P2", "P3">>

\* ------------------------------------ absent operand b (SpecNull)
\* the primitive operands of raw tree t that a traversal passes on, in its
\* order: operand a whatever it is, operand b unless it is None
RECURSIVE Leaves(_)
Leaves(t) ==
    IF t.tag # "tuple" THEN <<t>>
    ELSE Leaves(t.items[1])
         \o (IF Len(t.items) = 2 /\ t.items[2] # VNone THEN Leaves(t.items[2]) ELSE <<>>)

\* the arguments of the primitive handler invocations of member p, in order
PrimValsBy(p) ==
    LET ByP(e) == e.kind = "prim" /\ e.p = p
        es == SelectSeq(trace, ByP)
    IN [i \in DOMAIN es |-> es[i].val]

\* the nodes of the tree under n whose operand a is not a node
PrimANodes(h, n) == {m \in Subtree(h, n) : ~IsNode(h[m].a)}

\* operand b is being processed only where it is not None
BOnlyWhenPresent ==
    \A i \in DOMAIN stack :
       /\ stack[i].fn = "process" /\ stack[i].pc = "afterB" => HasB(heap[stack[i].node].b)
       /\ stack[i].fn = "mprocess" /\ stack[i].pc \in {"b", "b_ret"}
             => HasB(heap[stack[i].node].b)

\* what the primitive handlers were given.  A Processor's first call on a
\* raw tree: each primitive operand a and each primitive operand b that is
\* not None once, in traversal order.  A Dropper leaves no primitive
\* operand b behind, so its second call, on the result of the first, is
\* given the operands a only.  In Engine(P1, [P2, P3]) with P2 a Dropper,
\* P1 and P2 are given the leaves of the input; P3 is given None for each
\* primitive operand a and, through the chain of the slot, for the root's
\* operand b if it was a primitive.
PrimitiveCalls ==
    /\ target # 0 /\ status = "returned" /\ calls = 1 /\ IsTuple(input) =>
          PrimValsBy(target) = Leaves(input)
    /\ target # 0 /\ status = "returned" /\ IsNode(ret)
          /\ procs[target].cls = "Dropper" =>
          /\ \A n \in Subtree(heap, ret.val) :
                /\ IsNode(heap[n].b) \/ IsAbsent(heap[n].b)
                /\ IsAbsent(heap[n].b) => Len(Operands(heap, n).val) = 1
          /\ calls >= 2 =>
                /\ \A i \in DOMAIN PrimValsBy(target) : PrimValsBy(target)[i] = VNone
                /\ Len(PrimValsBy(target)) = Cardinality(PrimANodes(heap, ret.val))
    /\ target = 0 /\ status = "returned" /\ calls = 1 =>
          /\ PrimValsBy(1) = Leaves(input)
          /\ PrimValsBy(2) = Leaves(input)
          /\ \A i \in DOMAIN PrimValsBy(3) : PrimValsBy(3)[i] = VNone
          /\ Len(PrimValsBy(3))
                = Cardinality(PrimANodes(heap, ret.val))
                  + (IF Len(input.items) = 2 /\ IsPrimitive(input.items[2])
                        /\ input.items[2] # VNone THEN 1 ELSE 0)
          /\ \A n \in Subtree(heap, ret.val) : IsNode(heap[n].b) \/ IsAbsent(heap[n].b)

\* the steps that decide: process() on a node always goes on with operand
\* a, and the Engine starts every slot with it; after operand a, operand b
\* is gone on with exactly when it is not None
OperandSteps ==
    /\ Running /\ Top.fn = "process" /\ Top.pc = "enter" /\ ~IsPrimitive(Top.arg) =>
          /\ Len(stack') = Len(stack) + 1
          /\ stack'[Len(stack')].arg = heap'[stack'[Len(stack)].node].a
    /\ Running /\ Top.fn = "process" /\ Top.pc = "afterA" =>
          IF heap'[Top.node].b # VNone
          THEN /\ Len(stack') = Len(stack) + 1
               /\ stack'[Len(stack')].arg = heap'[Top.node].b
          ELSE stack' = SetTop([Top EXCEPT !.pc = "dispatch"])
    /\ Running /\ Top.fn = "mprocess" /\ Top.pc = "loop" /\ cur < Len(slots) =>
          stack'[1].pc = "a" /\ stack'[1].chain = heap'[Top.node].a
    /\ Running /\ Top.fn = "mprocess" /\ Top.pc = "a"
          /\ Top.mi > Len(CurrentSlot(slots, cur)) =>
          IF heap'[Top.node].b # VNone
          THEN stack'[1].pc = "b" /\ stack'[1].chain = heap'[Top.node].b
          ELSE stack'[1].pc = "n"

\* C19: a None operand b is an absent operand.  Processor.process and every
\* slot of the Engine go on with operand a whatever it is (a primitive,
\* None too, goes to the primitive handler) and with operand b only when
\* it is not None: in one process() call of a Processor the primitive
\* handler is invoked once for each primitive operand a and each primitive
\* operand b that is not None, never for an absent operand b; once a
\* handler's None has been stored in operand b the node has one operand
\* for operands and for every later call and slot.
C19_AbsentB == [](BOnlyWhenPresent /\ PrimitiveCalls) /\ [][OperandSteps]_vars

C19_Witness ==
    /\ target = 0 /\ status = "returned" /\ calls = 1
    /\ IsTuple(input) /\ Len(input.items) = 2
    /\ IsTuple(input.items[1]) /\ input.items[1].items = <<VNone, VInt(1)>>
    /\ input.items[2] = VInt(1)
    /\ heap[ret.val].b = VNone /\ heap[heap[ret.val].a.val].b = VNone
    /\ PrimValsBy(1) = <<VNone, VInt(1), VInt(1)>>
    /\ PrimValsBy(3) = <<VNone, VNone>>

====
